---- MODULE Spec2Model ----
(***************************************************************************)
(* A model of DOSpacesWrapper (src/DOSpacesWrapper.py): a client of an     *)
(* S3-compatible object store.  The bucket is a flat map from keys to      *)
(* bodies; the server side of every remote call (put, head, get, delete,   *)
(* list, multipart) is the store the wrapper talks to, and every remote    *)
(* call may fail with a ClientError (an error response of the service) or  *)
(* with a transport error (botocore's BotoCoreError family, which is not a *)
(* ClientError).                                                           *)
(***************************************************************************)
EXTENDS Integers, Sequences, FiniteSets, TLC

\* ------------------------------------------------------------------ bounds

\* Longest payload, in bytes.
MaxLen == 3
\* Largest chunk size handed to the chunked upload and to the readers.
MaxChunk == 2
\* Multipart sessions the server holds open at once.
MaxSessions == 1
\* Entries per page of a listing (1000 on the service).
PageSize == 2

\* ------------------------------------------------------------- the inputs

\* A payload of n bytes, all different, so that a dropped, repeated or misplaced
\* chunk shows: base + 1, ..., base + n.
Pattern(n, base) == [i \in 1..n |-> base + i]

\* A payload of every length up to MaxLen, and one more that shares no byte with
\* them.
Payloads == {Pattern(n, 0) : n \in 0..MaxLen} \cup {Pattern(1, MaxLen)}

\* Bodies written by the single-call operations of the folder specification.
SmallPayloads == {Pattern(n, 0) : n \in 0..1}

ChunkSizes == 1..MaxChunk

\* Folder paths, as callers pass them: no trailing slash.
FolderPaths == {<<"a">>, <<"a", "/", "b">>}

\* File paths.  "ab" is a sibling of folder "a" that merely begins with "a".
FilePaths == {<<"a", "/", "a">>, <<"a", "/", "b", "/", "a">>, <<"a", "b">>}

\* File paths the file specification writes and reads.
ReadPaths == {<<"a", "/", "a">>, <<"a", "b">>}

\* File paths the chunked-upload specification writes.
UploadPaths == {<<"a", "b">>}

\* Prefixes handed to listFolders ('' is the default).
ListPrefixes == {<<>>, <<"a", "/">>, <<"a">>}

Marker(folderPath) == folderPath \o <<"/">>

\* Every key an operation can address: the folder markers, the files, and the
\* folder paths themselves (a key with no trailing slash).
Keys == {Marker(p) : p \in FolderPaths} \cup FilePaths \cup FolderPaths

\* The body of a key that holds no object.
NoObj == <<-1>>

\* ------------------------------------------------------- keys and listing

Ord(ch) == CASE ch = "/" -> 47 [] ch = "a" -> 97 [] ch = "b" -> 98

IsPrefix(p, k) == Len(p) <= Len(k) /\ SubSeq(k, 1, Len(p)) = p

\* The byte order in which the service lists keys.
RECURSIVE KeyLess(_, _)
KeyLess(a, b) ==
  IF a = <<>> THEN b # <<>>
  ELSE IF b = <<>> THEN FALSE
  ELSE IF Head(a) # Head(b) THEN Ord(Head(a)) < Ord(Head(b))
  ELSE KeyLess(Tail(a), Tail(b))

RECURSIVE SortKeys(_)
SortKeys(S) ==
  IF S = {} THEN <<>>
  ELSE LET m == CHOOSE x \in S : \A y \in S \ {x} : KeyLess(x, y)
       IN  <<m>> \o SortKeys(S \ {m})

\* A listing cut into pages: at least one page, each of at most PageSize entries.
RECURSIVE Pages(_)
Pages(s) ==
  IF Len(s) <= PageSize THEN <<s>>
  ELSE <<SubSeq(s, 1, PageSize)>> \o Pages(SubSeq(s, PageSize + 1, Len(s)))

HasDelimiter(s) == \E i \in 1..Len(s) : s[i] = "/"

FirstDelimiter(s) == CHOOSE i \in 1..Len(s) : s[i] = "/" /\ \A j \in 1..(i - 1) : s[j] # "/"

\* The part of key k after the prefix.
Rest(prefix, k) == SubSeq(k, Len(prefix) + 1, Len(k))

\* The common prefix a key rolls up into: the prefix plus the rest up to and
\* including its first delimiter.
CommonPrefixOf(prefix, k) == prefix \o SubSeq(Rest(prefix, k), 1, FirstDelimiter(Rest(prefix, k)))

RECURSIVE Concat(_)
Concat(ss) == IF ss = <<>> THEN <<>> ELSE Head(ss) \o Concat(Tail(ss))

Min(a, b) == IF a <= b THEN a ELSE b

\* ---------------------------------------------------------------- faults

\* A fault hits the at-th remote call of an operation (0: none).  "client" is a
\* ClientError other than not-found, "transport" an exception that is not a
\* ClientError, "nobucket" the ClientError of a bucket that does not exist,
\* "owned" the ClientError BucketAlreadyOwnedByYou.
NoFault == [at |-> 0, kind |-> "none"]

FaultSet(n) == {NoFault} \cup {[at |-> i, kind |-> k] : i \in 1..n, k \in {"client", "transport"}}


VARIABLES
  bucketExists,  \* whether the configured bucket exists on the service
  store,         \* the bucket: key -> body, NoObj where there is no object
  sessions,      \* the server's open multipart sessions, by upload id
  pc,            \* uploadFileChunked's position: idle, loop, done
  filePath,      \* uploadFileChunked: destination key
  fileData,      \* uploadFileChunked: what is left of the readable source
  chunkSize,     \* uploadFileChunked: chunk size
  parts,         \* uploadFileChunked: [PartNumber, ETag] recorded so far
  part_number,   \* uploadFileChunked: next part number
  upload_id,     \* uploadFileChunked: the session's id
  source,        \* uploadFileChunked: the whole payload of the source
  before,        \* the store when the chunked upload in progress was called
  calls,         \* uploadFileChunked: the remote calls made so far, in order
  outcome,       \* uploadFileChunked: how the handler ends, once it has
  last,          \* the operation called last, and how it ended
  prev           \* before a read: the successful write on its path right before it

vars == <<bucketExists, store, sessions, pc, filePath, fileData, chunkSize,
          parts, part_number, upload_id, source, before, calls, outcome, last, prev>>

upvars == <<pc, filePath, fileData, chunkSize, parts, part_number, upload_id, source,
            before, calls, outcome>>

\* The fault in force: a missing bucket fails the first call unless an injected
\* fault already does.
Eff(f) == IF ~bucketExists /\ f.at # 1 THEN [at |-> 1, kind |-> "nobucket"] ELSE f

\* What the i-th remote call of an operation under fault f ends with.
FailKind(f, i) == IF Eff(f).at = i THEN Eff(f).kind ELSE "none"

\* ------------------------------------------------ what an operation leaves

\* op and path: the operation and its path argument.  data: the body it was given
\* to write (for deleteFolder, the keys it had deleted).  size: its chunk size (0 when
\* it takes none).  fault: the failure its remote calls met.  rkind: None, bool, str,
\* list (a returned list, or the chunks a generator yields).
Returned(op, path, data, fault, rkind, rbool, rlist) ==
  [op |-> op, path |-> path, data |-> data, size |-> 0, fault |-> fault,
   status |-> "returned", exc |-> "none", rkind |-> rkind, rbool |-> rbool, rlist |-> rlist]

Raised(op, path, data, fault, exc) ==
  [op |-> op, path |-> path, data |-> data, size |-> 0, fault |-> fault,
   status |-> "raised", exc |-> exc, rkind |-> "None", rbool |-> FALSE, rlist |-> <<>>]

WithSize(r, size) == [r EXCEPT !.size = size]

\* An operation that has been called and has not ended.
Running(op, path, data) ==
  [op |-> op, path |-> path, data |-> data, size |-> 0, fault |-> "none",
   status |-> "running", exc |-> "none", rkind |-> "None", rbool |-> FALSE, rlist |-> <<>>]

\* try: ... except ClientError: print, fall through to the implicit return None.
\* Anything that is not a ClientError leaves the handler as an exception.
ReturnsNone(op, path, data, kind) ==
  IF kind = "transport" THEN Raised(op, path, data, kind, "BotoCoreError")
  ELSE Returned(op, path, data, kind, "None", FALSE, <<>>)

\* An operation that ran with no remote failure and returned.
Succeeded(r) == r.fault = "none" /\ r.status = "returned"

\* An operation one of whose requests the bucket did not answer: a ClientError
\* other than not-found, a transport error, or no bucket at all.
Faulted(r) == r.fault \in {"client", "transport", "nobucket", "owned"}

\* The operations that write to the bucket.
WriteOps == {"createFolder", "deleteFolder", "deleteFile", "uploadFile", "updateFile",
             "uploadFileChunked", "uploadFileChunkedBytes"}

NoPrev == [op |-> "none", path |-> <<>>, data |-> <<>>, size |-> 0]

\* The operations that only read the bucket.
ReadOps == {"folderExists", "fileExists", "listFolderContents", "streamFileContent", "readFile"}

\* last is the operation called last, with how it ended.  When it is a read, prev is
\* the operation before it if that was a write on the same path that succeeded
\* (and NoPrev otherwise).
Finish(r) ==
  /\ last' = r
  /\ prev' = IF /\ r.op \in ReadOps
                /\ Succeeded(last) /\ last.op \in WriteOps /\ last.path = r.path
             THEN [op |-> last.op, path |-> last.path, data |-> last.data, size |-> last.size]
             ELSE NoPrev

Exists(k) == k \in Keys /\ store[k] # NoObj

\* ---------------------------------------------------------- the service

PutObject(s, k, body) == [s EXCEPT ![k] = body]

DeleteObjects(s, ks) == [k \in Keys |-> IF k \in ks THEN NoObj ELSE s[k]]

\* list_objects(Prefix): the keys with the prefix, in order.
ListObjects(prefix) == SortKeys({k \in Keys : Exists(k) /\ IsPrefix(prefix, k)})

\* list_objects_v2(Prefix, Delimiter='/'): a key whose rest holds no delimiter is
\* listed as itself (Contents), every other as its common prefix (CommonPrefixes).
ContentsKeys(prefix) ==
  {k \in Keys : Exists(k) /\ IsPrefix(prefix, k) /\ ~HasDelimiter(Rest(prefix, k))}

CommonPrefixes(prefix) ==
  {CommonPrefixOf(prefix, k) :
     k \in {x \in Keys : Exists(x) /\ IsPrefix(prefix, x) /\ HasDelimiter(Rest(prefix, x))}}

ListObjectsV2(prefix) ==
  LET names == SortKeys(ContentsKeys(prefix) \cup CommonPrefixes(prefix))
  IN  [i \in 1..Len(names) |->
         [kind |-> IF names[i] \in CommonPrefixes(prefix) THEN "Prefix" ELSE "Key",
          name |-> names[i]]]

\* ------------------------------------------------------- bucket operations

connectToBucket(f) ==
  /\ pc = "idle"
  /\ LET k == FailKind(f, 1)
     IN  Finish(IF k = "none"
                THEN Returned("connectToBucket", <<>>, <<>>, k, "str", FALSE, <<>>)
                ELSE ReturnsNone("connectToBucket", <<>>, <<>>, k))
  /\ UNCHANGED <<bucketExists, store, sessions, upvars>>

listBuckets(f) ==
  /\ pc = "idle"
  /\ Finish(ReturnsNone("listBuckets", <<>>, <<>>, f.kind))
  /\ UNCHANGED <<bucketExists, store, sessions, upvars>>

\* create_bucket on a bucket the caller owns answers BucketAlreadyOwnedByYou, a
\* ClientError the handler prints.
createBucket(f) ==
  /\ pc = "idle"
  /\ bucketExists' = (bucketExists \/ f.kind = "none")
  /\ Finish(ReturnsNone("createBucket", <<>>, <<>>,
                        IF f.kind = "none" /\ bucketExists THEN "owned" ELSE f.kind))
  /\ UNCHANGED <<store, sessions, upvars>>

\* ------------------------------------------------------- folder operations

\* A createFolder that forgets the trailing slash.
createFolderKeyNoSlash(folderPath) == folderPath

createFolderKey(folderPath) == Marker(folderPath)

createFolder(folderPath, f) ==
  /\ pc = "idle"
  /\ LET k == FailKind(f, 1)
     IN  /\ store' = IF k = "none" THEN PutObject(store, createFolderKey(folderPath), <<>>)
                     ELSE store
         /\ Finish(ReturnsNone("createFolder", folderPath, <<>>, k))
  /\ UNCHANGED <<bucketExists, sessions, upvars>>

\* head_object on key: True, or False on any ClientError (a missing key is the
\* ClientError with code 404).
HeadResult(op, path, key, k) ==
  IF k = "transport" THEN Raised(op, path, <<>>, k, "BotoCoreError")
  ELSE Returned(op, path, <<>>, k, "bool", k = "none" /\ Exists(key), <<>>)

folderExistsKey(folderPath) == Marker(folderPath)

folderExists(folderPath, f) ==
  /\ pc = "idle"
  /\ Finish(HeadResult("folderExists", folderPath, folderExistsKey(folderPath), FailKind(f, 1)))
  /\ UNCHANGED <<bucketExists, store, sessions, upvars>>

fileExists(path, f) ==
  /\ pc = "idle"
  /\ Finish(HeadResult("fileExists", path, path, FailKind(f, 1)))
  /\ UNCHANGED <<bucketExists, store, sessions, upvars>>

\* ---------------------------------------------------------- file operations

\* A write that leaves an existing object alone.
PutResultIfAbsent(s, path, data, k) ==
  IF k = "none" /\ s[path] = NoObj THEN PutObject(s, path, data) ELSE s

PutResult(s, path, data, k) == IF k = "none" THEN PutObject(s, path, data) ELSE s

uploadFile(path, data, f) ==
  /\ pc = "idle"
  /\ store' = PutResult(store, path, data, FailKind(f, 1))
  /\ Finish(ReturnsNone("uploadFile", path, data, FailKind(f, 1)))
  /\ UNCHANGED <<bucketExists, sessions, upvars>>

updateFile(path, data, f) ==
  /\ pc = "idle"
  /\ store' = PutResult(store, path, data, FailKind(f, 1))
  /\ Finish(ReturnsNone("updateFile", path, data, FailKind(f, 1)))
  /\ UNCHANGED <<bucketExists, sessions, upvars>>

deleteFile(path, f) ==
  /\ pc = "idle"
  /\ store' = IF FailKind(f, 1) = "none" THEN DeleteObjects(store, {path}) ELSE store
  /\ Finish(ReturnsNone("deleteFile", path, <<>>, FailKind(f, 1)))
  /\ UNCHANGED <<bucketExists, sessions, upvars>>

\* ------------------------------------------------------------ deleteFolder

deleteFolderPrefix(folderPath) == folderPath

\* The paginator fetches a page, the handler deletes its keys, and so on: call
\* 2i-1 fetches page i and call 2i deletes it.  A page without Contents (no key
\* matches) is fetched and nothing is deleted.
deleteFolderCalls(folderPath) ==
  LET ks == ListObjects(deleteFolderPrefix(folderPath))
  IN  IF ks = <<>> THEN 1 ELSE 2 * Len(Pages(ks))

\* A deleteFolder that empties the folder and keeps its marker.
DeleteKeysKeepMarker(page, folderPath) == SelectSeq(page, LAMBDA k : k # Marker(folderPath))

\* delete_keys = [{'Key': obj['Key']} for obj in page['Contents']]
DeleteKeys(page, folderPath) == page

deleteFolder(folderPath, f) ==
  /\ pc = "idle"
  /\ LET pages == Pages(ListObjects(deleteFolderPrefix(folderPath)))
         e == Eff(f)
         done == IF e.at = 0 THEN Len(pages) ELSE (e.at - 1) \div 2
         gone == Concat([i \in 1..done |-> DeleteKeys(pages[i], folderPath)])
     IN  /\ store' = DeleteObjects(store, {gone[i] : i \in 1..Len(gone)})
         /\ Finish(ReturnsNone("deleteFolder", folderPath, gone, e.kind))
  /\ UNCHANGED <<bucketExists, sessions, upvars>>

\* ------------------------------------------------------------- listFolders

HasCommonPrefixes(page) == \E i \in 1..Len(page) : page[i].kind = "Prefix"

\* The first page that holds CommonPrefixes (0: none does).
FirstPrefixPage(pages) ==
  IF \E i \in 1..Len(pages) : HasCommonPrefixes(pages[i])
  THEN CHOOSE i \in 1..Len(pages) :
         HasCommonPrefixes(pages[i]) /\ \A j \in 1..(i - 1) : ~HasCommonPrefixes(pages[j])
  ELSE 0

\* folders.extend(prefix.replace(prefix, '') for prefix in page['CommonPrefixes']):
\* the loop variable is an entry of CommonPrefixes, a dict {'Prefix': ...}, and a
\* dict has no replace: the first page that holds CommonPrefixes raises
\* AttributeError, which the handler's except ClientError does not catch.  A page
\* without CommonPrefixes adds nothing to folders.
listFoldersResult(prefix, pages, e) ==
  LET cp == FirstPrefixPage(pages)
  IN  IF cp # 0 /\ (e.at = 0 \/ cp < e.at)
      THEN Raised("listFolders", prefix, <<>>, "none", "AttributeError")
      ELSE IF e.at = 0 THEN Returned("listFolders", prefix, <<>>, "none", "list", FALSE, <<>>)
      ELSE IF e.kind = "transport"
      THEN Raised("listFolders", prefix, <<>>, e.kind, "BotoCoreError")
      ELSE Returned("listFolders", prefix, <<>>, e.kind, "list", FALSE, <<>>)

listFoldersCalls(prefix) == Len(Pages(ListObjectsV2(prefix)))

listFolders(prefix, f) ==
  /\ pc = "idle"
  /\ Finish(listFoldersResult(prefix, Pages(ListObjectsV2(prefix)), Eff(f)))
  /\ UNCHANGED <<bucketExists, store, sessions, upvars>>

\* ------------------------------------------------------ listFolderContents

listFolderContentsPrefix(folderPath) == Marker(folderPath)

\* One page's share of contents: its keys, then its common prefixes, the folder's
\* own marker left out of both.
RECURSIVE PageNames(_, _, _)
PageNames(page, kind, own) ==
  IF page = <<>> THEN <<>>
  ELSE (IF Head(page).kind = kind /\ Head(page).name # own THEN <<Head(page).name>> ELSE <<>>)
       \o PageNames(Tail(page), kind, own)

RECURSIVE FolderContents(_, _)
FolderContents(pages, own) ==
  IF pages = <<>> THEN <<>>
  ELSE PageNames(Head(pages), "Key", own) \o PageNames(Head(pages), "Prefix", own)
       \o FolderContents(Tail(pages), own)

\* Call 1 is folderExists' head_object; call i + 1 fetches page i.
listFolderContentsResult(folderPath, pages, e) ==
  IF e.at = 1 /\ e.kind = "transport"
  THEN Raised("listFolderContents", folderPath, <<>>, e.kind, "BotoCoreError")
  ELSE IF e.at = 1 \/ ~Exists(folderExistsKey(folderPath))
  THEN Raised("listFolderContents", folderPath, <<>>,
              IF e.at = 1 THEN e.kind ELSE "none", "Exception")
  ELSE IF e.at = 0
  THEN Returned("listFolderContents", folderPath, <<>>, "none", "list", FALSE,
                FolderContents(pages, Marker(folderPath)))
  ELSE IF e.kind = "transport"
  THEN Raised("listFolderContents", folderPath, <<>>, e.kind, "BotoCoreError")
  ELSE Returned("listFolderContents", folderPath, <<>>, e.kind, "list", FALSE, <<>>)

listFolderContentsCalls(folderPath) ==
  1 + Len(Pages(ListObjectsV2(listFolderContentsPrefix(folderPath))))

listFolderContents(folderPath, f) ==
  /\ pc = "idle"
  /\ Finish(listFolderContentsResult(folderPath,
              Pages(ListObjectsV2(listFolderContentsPrefix(folderPath))), Eff(f)))
  /\ UNCHANGED <<bucketExists, store, sessions, upvars>>

\* ----------------------------------------------------------------- readers

\* stream.read(chunkSize) until it returns nothing: chunks of chunkSize bytes, the
\* last one possibly shorter, none of them empty.
RECURSIVE Chunks(_, _)
Chunks(body, size) ==
  IF body = <<>> THEN <<>>
  ELSE <<SubSeq(body, 1, Min(size, Len(body)))>>
       \o Chunks(SubSeq(body, Min(size, Len(body)) + 1, Len(body)), size)

\* get_object on a missing key is the ClientError NoSuchKey: the generator prints
\* and yields nothing.
ReadResult(op, path, size, k) ==
  IF k = "transport" THEN Raised(op, path, <<>>, k, "BotoCoreError")
  ELSE IF k # "none" THEN Returned(op, path, <<>>, k, "list", FALSE, <<>>)
  ELSE IF ~Exists(path) THEN Returned(op, path, <<>>, "nokey", "list", FALSE, <<>>)
  ELSE Returned(op, path, <<>>, k, "list", FALSE, Chunks(store[path], size))

streamFileContent(path, size, f) ==
  /\ pc = "idle"
  /\ Finish(WithSize(ReadResult("streamFileContent", path, size, FailKind(f, 1)), size))
  /\ UNCHANGED <<bucketExists, store, sessions, upvars>>

readFile(path, size, f) ==
  /\ pc = "idle"
  /\ Finish(WithSize(ReadResult("readFile", path, size, FailKind(f, 1)), size))
  /\ UNCHANGED <<bucketExists, store, sessions, upvars>>

\* ------------------------------------------------- multipart, the service

\* The integrity tag of a part: a digest of its body.
ETag(body) == [md5 |-> body]

NoParts == [n \in 1..MaxLen |-> NoObj]

Session(id) == CHOOSE x \in sessions : x.id = id

\* An upload id no open session has.
NewId == CHOOSE i \in 1..(Cardinality(sessions) + 1) : \A x \in sessions : x.id # i

CreateMultipartUpload(key) == sessions \cup {[id |-> NewId, key |-> key, parts |-> NoParts]}

UploadPart(id, n, body) ==
  {IF x.id = id THEN [x EXCEPT !.parts[n] = body] ELSE x : x \in sessions}

\* The service accepts a completion whose parts are ones it holds under the tags
\* it gave, in ascending order; anything else is a ClientError.
CompleteValid(id, key, list) ==
  /\ \E x \in sessions : x.id = id /\ x.key = key
  /\ \A i \in 1..Len(list) :
       /\ list[i].PartNumber \in 1..MaxLen
       /\ Session(id).parts[list[i].PartNumber] # NoObj
       /\ ETag(Session(id).parts[list[i].PartNumber]) = list[i].ETag
       /\ i > 1 => list[i - 1].PartNumber < list[i].PartNumber

\* The object a completion creates: the listed parts' bodies, in the listed order.
CompleteBody(id, list) ==
  Concat([i \in 1..Len(list) |-> Session(id).parts[list[i].PartNumber]])

\* ------------------------------------------------------- multipartUpload

multipartUpload(path, f) ==
  /\ pc = "idle"
  /\ Cardinality(sessions) < MaxSessions
  /\ LET k == FailKind(f, 1)
     IN  /\ sessions' = IF k = "none" THEN CreateMultipartUpload(path) ELSE sessions
         /\ Finish(IF k = "none"
                   THEN Returned("multipartUpload", path, <<>>, k, "str", FALSE, <<NewId>>)
                   ELSE ReturnsNone("multipartUpload", path, <<>>, k))
  /\ UNCHANGED <<bucketExists, store, upvars>>

\* ----------------------------------------------------- uploadFileChunked

\* fileData.read(chunkSize): up to chunkSize bytes off the front of the source.
ReadChunk(data, size) == SubSeq(data, 1, Min(size, Len(data)))

AfterRead(data, size) == SubSeq(data, Min(size, Len(data)) + 1, Len(data))

\* A remote call of the chunked upload: its name, PartNumber and Body (upload_part),
\* Parts (complete_multipart_upload), and how it ended.
Call(name, n, body, list, result) ==
  [call |-> name, n |-> n, body |-> body, list |-> list, result |-> result]

\* A handler that swallows the failure inside the loop and carries on.
PcAfterFailureCarriesOn == "loop"

\* except ClientError: the handler prints and ends; any other exception leaves it.
PcAfterFailure == "done"

\* A loop that takes a short chunk for the end of the source.
LoopEndsOnShortChunk(chunk, size) == Len(chunk) < size

\* if not chunk: break
LoopEnds(chunk, size) == chunk = <<>>

\* The bytes branch: one put_object.
uploadFileChunkedBytes(path, data, f) ==
  /\ pc = "idle"
  /\ store' = PutResult(store, path, data, FailKind(f, 1))
  /\ Finish(ReturnsNone("uploadFileChunkedBytes", path, data, FailKind(f, 1)))
  /\ UNCHANGED <<bucketExists, sessions, upvars>>

\* The readable branch, up to the loop: parts = [], part_number = 1, and the
\* session is created.  A failed call ends the handler (pc = "done").
uploadFileChunkedStart(path, src, size, f) ==
  /\ pc = "idle"
  /\ Cardinality(sessions) < MaxSessions
  /\ LET k == FailKind(f, 1)
     IN  /\ filePath' = path
         /\ fileData' = src
         /\ chunkSize' = size
         /\ source' = src
         /\ before' = store
         /\ parts' = <<>>
         /\ part_number' = 1
         /\ calls' = <<Call("create_multipart_upload", 0, <<>>, <<>>, k)>>
         /\ outcome' = k
         /\ sessions' = IF k = "none" THEN CreateMultipartUpload(path) ELSE sessions
         /\ upload_id' = IF k = "none" THEN NewId ELSE 0
         /\ pc' = IF k = "none" THEN "loop" ELSE PcAfterFailure
  /\ last' = WithSize(Running("uploadFileChunked", path, src), size)
  /\ prev' = NoPrev
  /\ UNCHANGED <<bucketExists, store>>

\* A part counter that skips a number.
NextPartNumberSkips(n) == n + 2

\* part_number += 1
NextPartNumber(n) == n + 1

\* A loop that also writes every chunk to the key itself.
uploadFileChunkedPartPuts(f) ==
  /\ pc = "loop"
  /\ ~LoopEnds(ReadChunk(fileData, chunkSize), chunkSize)
  /\ LET k == FailKind(f, 1)
         chunk == ReadChunk(fileData, chunkSize)
     IN  /\ fileData' = AfterRead(fileData, chunkSize)
         /\ calls' = Append(calls, Call("upload_part", part_number, chunk, <<>>, k))
         /\ outcome' = k
         /\ store' = PutResult(store, filePath, chunk, k)
         /\ IF k = "none"
            THEN /\ sessions' = UploadPart(upload_id, part_number, chunk)
                 /\ parts' = Append(parts, [PartNumber |-> part_number, ETag |-> ETag(chunk)])
                 /\ part_number' = NextPartNumber(part_number)
                 /\ pc' = "loop"
            ELSE /\ pc' = PcAfterFailure
                 /\ UNCHANGED <<sessions, parts, part_number>>
  /\ UNCHANGED <<bucketExists, filePath, chunkSize, upload_id, source, before, last, prev>>

\* One turn of the loop with a non-empty chunk: upload_part, then record the part.
uploadFileChunkedPart(f) ==
  /\ pc = "loop"
  /\ ~LoopEnds(ReadChunk(fileData, chunkSize), chunkSize)
  /\ LET k == FailKind(f, 1)
         chunk == ReadChunk(fileData, chunkSize)
     IN  /\ fileData' = AfterRead(fileData, chunkSize)
         /\ calls' = Append(calls, Call("upload_part", part_number, chunk, <<>>, k))
         /\ outcome' = k
         /\ IF k = "none"
            THEN /\ sessions' = UploadPart(upload_id, part_number, chunk)
                 /\ parts' = Append(parts, [PartNumber |-> part_number, ETag |-> ETag(chunk)])
                 /\ part_number' = NextPartNumber(part_number)
                 /\ pc' = "loop"
            ELSE /\ pc' = PcAfterFailure
                 /\ UNCHANGED <<sessions, parts, part_number>>
  /\ UNCHANGED <<bucketExists, store, filePath, chunkSize, upload_id, source, before,
                 last, prev>>

\* The read that returns nothing ends the loop; the session is completed with the
\* parts recorded.
uploadFileChunkedComplete(f) ==
  /\ pc = "loop"
  /\ LoopEnds(ReadChunk(fileData, chunkSize), chunkSize)
  /\ LET k == IF FailKind(f, 1) = "none" /\ ~CompleteValid(upload_id, filePath, parts)
              THEN "client" ELSE FailKind(f, 1)
     IN  /\ calls' = Append(calls, Call("complete_multipart_upload", 0, <<>>, parts, k))
         /\ outcome' = k
         /\ store' = IF k = "none"
                     THEN PutObject(store, filePath, CompleteBody(upload_id, parts))
                     ELSE store
         /\ sessions' = IF k = "none" THEN {x \in sessions : x.id # upload_id} ELSE sessions
  /\ pc' = "done"
  /\ UNCHANGED <<bucketExists, filePath, fileData, chunkSize, parts, part_number,
                 upload_id, source, before, last, prev>>

\* The handler ends: it prints and returns None, or the exception leaves it; its
\* locals are gone.
uploadFileChunkedReturn ==
  /\ pc = "done"
  /\ Finish(WithSize(ReturnsNone("uploadFileChunked", filePath, source, outcome), chunkSize))
  /\ pc' = "idle"
  /\ filePath' = <<>>
  /\ fileData' = <<>>
  /\ chunkSize' = 1
  /\ parts' = <<>>
  /\ part_number' = 1
  /\ upload_id' = 0
  /\ source' = <<>>
  /\ before' = store
  /\ calls' = <<>>
  /\ outcome' = "none"
  /\ UNCHANGED <<bucketExists, store, sessions>>

\* ------------------------------------------------------ the specifications

NoOp == Returned("init", <<>>, <<>>, "none", "None", FALSE, <<>>)

\* After construction: nothing is known of the bucket but its name; the model
\* starts it empty, existing or not.
Init ==
  /\ bucketExists \in BOOLEAN
  /\ store = [k \in Keys |-> NoObj]
  /\ sessions = {}
  /\ pc = "idle"
  /\ filePath = <<>>
  /\ fileData = <<>>
  /\ chunkSize = 1
  /\ parts = <<>>
  /\ part_number = 1
  /\ upload_id = 0
  /\ source = <<>>
  /\ before = [k \in Keys |-> NoObj]
  /\ calls = <<>>
  /\ outcome = "none"
  /\ last = NoOp
  /\ prev = NoPrev

\* The bucket, folder and single-call file operations.
Next ==
  \/ \E f \in FaultSet(1) : connectToBucket(f)
  \/ \E f \in FaultSet(1) : listBuckets(f)
  \/ \E f \in FaultSet(1) : createBucket(f)
  \/ \E p \in FolderPaths, f \in FaultSet(1) : createFolder(p, f)
  \/ \E p \in FolderPaths, f \in FaultSet(1) : folderExists(p, f)
  \/ \E p \in FilePaths, f \in FaultSet(1) : fileExists(p, f)
  \/ \E p \in FilePaths, d \in SmallPayloads, f \in FaultSet(1) : uploadFile(p, d, f)
  \/ \E p \in FilePaths, d \in SmallPayloads, f \in FaultSet(1) : uploadFileChunkedBytes(p, d, f)
  \/ \E p \in FilePaths, f \in FaultSet(1) : deleteFile(p, f)
  \/ \E p \in FolderPaths : \E f \in FaultSet(deleteFolderCalls(p)) : deleteFolder(p, f)
  \/ \E p \in ListPrefixes : \E f \in FaultSet(listFoldersCalls(p)) : listFolders(p, f)
  \/ \E p \in FolderPaths : \E f \in FaultSet(listFolderContentsCalls(p)) :
       listFolderContents(p, f)

Spec == Init /\ [][Next]_vars

\* The single-call file operations and the readers.
NextFiles ==
  \/ \E f \in FaultSet(1) : createBucket(f)
  \/ \E p \in ReadPaths, d \in Payloads, f \in FaultSet(1) : uploadFile(p, d, f)
  \/ \E p \in ReadPaths, d \in Payloads, f \in FaultSet(1) : updateFile(p, d, f)
  \/ \E p \in ReadPaths, f \in FaultSet(1) : deleteFile(p, f)
  \/ \E p \in ReadPaths, f \in FaultSet(1) : fileExists(p, f)
  \/ \E p \in ReadPaths, c \in ChunkSizes, f \in FaultSet(1) : streamFileContent(p, c, f)
  \/ \E p \in ReadPaths, c \in ChunkSizes, f \in FaultSet(1) : readFile(p, c, f)

SpecFiles == Init /\ [][NextFiles]_vars

\* The chunked upload, the single-call write it competes with, and the readers.
NextUpload ==
  \/ \E f \in FaultSet(1) : createBucket(f)
  \/ \E p \in UploadPaths, d \in Payloads, f \in FaultSet(1) : uploadFile(p, d, f)
  \/ \E p \in UploadPaths, f \in FaultSet(1) : deleteFile(p, f)
  \/ \E p \in UploadPaths, c \in ChunkSizes, f \in FaultSet(1) : streamFileContent(p, c, f)
  \/ \E p \in UploadPaths, c \in ChunkSizes, f \in FaultSet(1) : readFile(p, c, f)
  \/ \E p \in UploadPaths, f \in FaultSet(1) : multipartUpload(p, f)
  \/ \E p \in UploadPaths, d \in Payloads, c \in ChunkSizes, f \in FaultSet(1) :
       uploadFileChunkedStart(p, d, c, f)
  \/ \E f \in FaultSet(1) : uploadFileChunkedPart(f)
  \/ \E f \in FaultSet(1) : uploadFileChunkedComplete(f)
  \/ uploadFileChunkedReturn

SpecUpload == Init /\ [][NextUpload]_vars

\* ================================================================ claims

\* The upload_part calls the chunked upload has made, in order.
PartCalls == SelectSeq(calls, LAMBDA x : x.call = "upload_part")

CompleteCalls == SelectSeq(calls, LAMBDA x : x.call = "complete_multipart_upload")

\* ceil(L / c)
NParts(L, c) == (L + c - 1) \div c

\* The i-th chunk of c bytes of a payload.
ChunkOf(d, c, i) == SubSeq(d, (i - 1) * c + 1, Min(i * c, Len(d)))

UploadRuns == pc \in {"loop", "done"}

\* C1: after a chunked upload of payload d from a readable source with chunk size c
\* that met no remote failure, the chunks readFile / streamFileContent yield for the
\* same path, concatenated in order, are d.
C1_RoundTrip ==
  (prev.op = "uploadFileChunked" /\ last.op \in {"readFile", "streamFileContent"}
     /\ ~Faulted(last))
  => (Succeeded(last) /\ Concat(last.rlist) = prev.data)

\* A payload of 3 bytes uploaded in chunks of 2 and read back in chunks of 1.
C1_Witness ==
  /\ prev.op = "uploadFileChunked" /\ Len(prev.data) = 3 /\ prev.size = 2
  /\ last.op = "readFile" /\ Succeeded(last) /\ last.size = 1 /\ Len(last.rlist) = 3

\* C2: the chunked upload of a source of L bytes with chunk size c submits the
\* parts 1, 2, ... in the order read, part i carrying the i-th chunk of c bytes (the
\* last one the remainder), never more than ceil(L/c) of them; the completion
\* request is sent after exactly ceil(L/c) parts and lists their (PartNumber, ETag)
\* pairs in ascending order.
C2_Parts ==
  UploadRuns =>
    LET L == Len(source)
        c == chunkSize
    IN  /\ Len(PartCalls) <= NParts(L, c)
        /\ \A i \in 1..Len(PartCalls) :
             /\ PartCalls[i].n = i
             /\ PartCalls[i].body = ChunkOf(source, c, i)
             /\ Len(PartCalls[i].body) = IF i < NParts(L, c) THEN c ELSE L - (i - 1) * c
        /\ \A j \in 1..Len(CompleteCalls) :
             /\ Len(PartCalls) = NParts(L, c)
             /\ CompleteCalls[j].list =
                  [i \in 1..NParts(L, c) |->
                     [PartNumber |-> i, ETag |-> ETag(ChunkOf(source, c, i))]]
        /\ (pc = "done" /\ outcome = "none") => Len(CompleteCalls) = 1

\* 3 bytes in chunks of 2: parts 1 and 2 of 2 and 1 bytes, completed.
C2_Witness ==
  /\ pc = "done" /\ outcome = "none" /\ Len(source) = 3 /\ chunkSize = 2
  /\ Len(PartCalls) = 2 /\ Len(PartCalls[2].body) = 1

\* C3: while a chunked upload from a readable source runs, the bucket is what it was
\* when the upload was called; only a completion that succeeds changes it, and then
\* only the upload's key, to the parts' bodies concatenated in part order.
C3_AllOrNothing ==
  UploadRuns =>
    IF pc = "done" /\ outcome = "none"
    THEN store = [before EXCEPT
                    ![filePath] = Concat([i \in 1..Len(PartCalls) |-> PartCalls[i].body])]
    ELSE store = before

\* Two parts are uploaded and the key still holds the object it held before.
C3_Witness ==
  /\ pc = "loop" /\ Len(parts) = 2 /\ fileData # <<>>
  /\ before[filePath] # NoObj /\ store[filePath] = before[filePath]

\* C8: the chunked upload creates its one session first; it completes the session at
\* most once, as its last call, after every part upload succeeded and the source is
\* read to its end; a call that fails is the last call it makes (no further part, no
\* completion, no abort), and the session it created is then still open on the
\* service.
C8_Lifecycle ==
  UploadRuns =>
    /\ calls # <<>>
    /\ calls[1].call = "create_multipart_upload"
    /\ \A i \in 2..Len(calls) :
         /\ calls[i].call \in {"upload_part", "complete_multipart_upload"}
         /\ calls[i - 1].result = "none"
    /\ \A i \in 1..Len(calls) :
         calls[i].call = "complete_multipart_upload" =>
           /\ i = Len(calls)
           /\ Concat([j \in 1..Len(PartCalls) |-> PartCalls[j].body]) = source
    /\ (pc = "loop") => calls[Len(calls)].result = "none"
    /\ (pc = "done" /\ outcome # "none") =>
         /\ calls[Len(calls)].result = outcome
         /\ Len(calls) > 1 => \E x \in sessions : x.id = upload_id /\ x.key = filePath
    /\ (pc = "done" /\ outcome = "none") =>
         /\ calls[Len(calls)].call = "complete_multipart_upload"
         /\ \A x \in sessions : x.id # upload_id

\* The second part upload fails: the handler has ended and the session is open.
C8_Witness ==
  /\ pc = "done" /\ outcome = "client" /\ Len(calls) = 3
  /\ calls[3].call = "upload_part" /\ fileData # <<>>
  /\ \E x \in sessions : x.id = upload_id

\* C9: right after uploadFile(p, d) or updateFile(p, d) succeeds, fileExists(p) is
\* true and a read of p yields chunks that concatenate to d, whatever the key held.
C9_ReadAfterWrite ==
  (prev.op \in {"uploadFile", "updateFile"} /\ ~Faulted(last)) =>
    /\ last.op = "fileExists" => (last.status = "returned" /\ last.rbool)
    /\ last.op \in {"readFile", "streamFileContent"} =>
         (Succeeded(last) /\ Concat(last.rlist) = prev.data)

\* A payload of 3 bytes written by updateFile is read back in chunks of 2.
C9_Witness ==
  /\ prev.op = "updateFile" /\ Len(prev.data) = 3
  /\ last.op = "readFile" /\ Succeeded(last) /\ last.size = 2 /\ Len(last.rlist) = 2

\* C10: right after createFolder(p) succeeds, folderExists(p) returns True.
C10_FolderExistsAfterCreate ==
  (prev.op = "createFolder" /\ last.op = "folderExists" /\ ~Faulted(last))
  => (last.status = "returned" /\ last.rbool)

C10_Witness ==
  /\ prev.op = "createFolder" /\ prev.path = <<"a", "/", "b">>
  /\ last.op = "folderExists" /\ last.rbool

\* C4: right after a deleteFolder(p) whose requests were all answered,
\* listFolderContents(p) raises (the folder does not exist, unless a transport error
\* leaves it first); it returns no list.
C4_ListAfterDelete ==
  (prev.op = "deleteFolder" /\ last.op = "listFolderContents")
  => /\ last.status = "raised"
     /\ last.fault # "transport" => last.exc = "Exception"

\* deleteFolder deleted the marker of the folder, and the listing then raised.
C4_Witness ==
  /\ prev.op = "deleteFolder" /\ last.op = "listFolderContents"
  /\ \E i \in 1..Len(prev.data) : prev.data[i] = Marker(prev.path)
  /\ last.fault = "none" /\ last.exc = "Exception"

\* C5: listFolders(prefix), its requests answered, returns the immediate child
\* prefixes under prefix: the common prefixes at the '/' delimiter.
C5_ListFolders ==
  (last.op = "listFolders" /\ ~Faulted(last))
  => (last.status = "returned" /\ last.rlist = SortKeys(CommonPrefixes(last.path)))

\* C6: no operation but listFolderContents ever raises: a failure of a remote call
\* ends in the operation's sentinel.
C6_OnlyListFolderContentsRaises ==
  last.status = "raised" => last.op = "listFolderContents"

FolderOps == {"createFolder", "folderExists", "deleteFolder", "listFolderContents"}

\* C7: a folder operation on path p leaves every object whose key does not begin
\* with p + '/' as it was.
C7_FolderFrame ==
  [][last'.op \in FolderOps =>
       \A k \in Keys : ~IsPrefix(Marker(last'.path), k) => store'[k] = store[k]]_vars

====
